---- MODULE Spec2Model ----
(***************************************************************************)
(* A model of src/app.py: the in-memory conversation store, its cleanup    *)
(* pass, and the HTTP handlers ask / new_conversation / get_conversation / *)
(* delete_conversation, with the remote inference call as an input.        *)
(*                                                                         *)
(* Text is a sequence of tokens (one-character strings, or a fixed piece   *)
(* of a template as one token).  An optional value is None (<<>>) or       *)
(* Some(x) (<<x>>).  An unset or empty environment variable is "".         *)
(*                                                                         *)
(* Line 69 of the source (MODEL=gemini-2.5-...) lacks its quotes; it is    *)
(* read as the string it is meant to be.  The request body of ask is a     *)
(* JSON object whose question, when present, is a string.                  *)
(***************************************************************************)
EXTENDS Integers, Sequences, FiniteSets, TLC

\* ---- bounds of the model ------------------------------------------------
\* the clock runs over 0..MaxTime
MaxTime == 2
\* an ask is only issued on a conversation with fewer messages than this
MaxMessages == 2
\* the longest the remote call takes, in clock units
MaxCallTime == 1

\* src/app.py:29 (1000 there; scaled down)
MAX_CONVERSATIONS == 1
\* src/app.py:30 (24 hours there; scaled down to clock units)
CONVERSATION_TIMEOUT == 1
\* src/app.py:207, the default of max_messages
MAX_HISTORY == 10

\* number of uuid4 values drawn over a run (ids are 1..MaxIds, 0 is "no id"):
\* enough to fill the store and to go one past its capacity
MaxIds == MAX_CONVERSATIONS + 1

None == <<>>
Some(x) == <<x>>

Restrict(f, S) == [x \in S |-> f[x]]

\* ---- text ----------------------------------------------------------------
IsSpace(c) == c \in {" ", "\n"}

RECURSIVE LStrip(_)
LStrip(s) == IF s = <<>> THEN s
             ELSE IF IsSpace(Head(s)) THEN LStrip(Tail(s)) ELSE s

RECURSIVE RStrip(_)
RStrip(s) == IF s = <<>> THEN s
             ELSE IF IsSpace(s[Len(s)]) THEN RStrip(SubSeq(s, 1, Len(s) - 1)) ELSE s

\* mutant of Strip: the question is used as it came
Strip_Omitted(s) == s

\* str.strip()
Strip(s) == RStrip(LStrip(s))

RECURSIVE Join(_, _)
\* sep.join(texts)
Join(sep, texts) ==
    IF texts = <<>> THEN <<>>
    ELSE IF Len(texts) = 1 THEN texts[1]
    ELSE texts[1] \o sep \o Join(sep, Tail(texts))

\* ---- the conversation store ----------------------------------------------
VARIABLES
    conversations,      \* the dict: id -> Conversation
    now,                \* what time.time() returns
    nextId,             \* the next value uuid.uuid4() returns
    PROJECT_ID,         \* os.getenv("PROJECT_ID"), "" when unset
    RAG_CORPUS,         \* os.getenv("RAG_CORPUS"), "" when unset
    DATA_STORE_ID,      \* os.getenv("DATA_STORE_ID"), "" when unset
    HAVE_TOOL_CLASSES,  \* _HAVE_TOOL_CLASSES
    last,               \* the last request handled: what came in, what went
                        \* to the remote service, what was answered
    running             \* the asks being handled by the server's threads:
                        \* where each one is and its local variables

vars == <<conversations, now, nextId, PROJECT_ID, RAG_CORPUS, DATA_STORE_ID,
          HAVE_TOOL_CLASSES, last, running>>

config == <<PROJECT_ID, RAG_CORPUS, DATA_STORE_ID, HAVE_TOOL_CLASSES>>

Message(role, content, timestamp, citations) ==
    [role |-> role, content |-> content, timestamp |-> timestamp,
     citations |-> citations]

Conversation(id, t) ==
    [id |-> id, messages |-> <<>>, created_at |-> t, updated_at |-> t]

\* The dict keeps insertion order; ids are handed out in increasing order and
\* a key is never inserted twice, so insertion order is the order of the ids.
\* sorted() is stable: equal updated_at keep insertion order.
Before(convs, i, j) ==
    \/ convs[i].updated_at < convs[j].updated_at
    \/ convs[i].updated_at = convs[j].updated_at /\ i < j

\* mutant of sorted_convs: sorted(..., reverse=True), the newest first
sorted_convs_Reversed(convs) ==
    [k \in 1..Cardinality(DOMAIN convs) |->
        CHOOSE i \in DOMAIN convs :
            Cardinality({j \in DOMAIN convs : Before(convs, i, j)}) = k - 1]

\* sorted(conversations.values(), key=lambda x: x.updated_at), as ids
sorted_convs(convs) ==
    [k \in 1..Cardinality(DOMAIN convs) |->
        CHOOSE i \in DOMAIN convs :
            Cardinality({j \in DOMAIN convs : Before(convs, j, i)}) = k - 1]

to_remove(convs, current_time) ==
    {i \in DOMAIN convs :
        current_time - convs[i].updated_at > CONVERSATION_TIMEOUT}

excess_count(convs) == Cardinality(DOMAIN convs) - MAX_CONVERSATIONS

\* mutant of cleanup_old_conversations: the pass over expired conversations
\* is left out, only the capacity is enforced
cleanup_CapacityOnly(convs, current_time) ==
    IF Cardinality(DOMAIN convs) > MAX_CONVERSATIONS
    THEN LET s == sorted_convs(convs)
         IN  Restrict(convs, DOMAIN convs \ {s[i] : i \in 1..excess_count(convs)})
    ELSE convs

cleanup_old_conversations(convs, current_time) ==
    LET kept == Restrict(convs, DOMAIN convs \ to_remove(convs, current_time))
    IN  IF Cardinality(DOMAIN kept) > MAX_CONVERSATIONS
        THEN LET s == sorted_convs(kept)
             IN  Restrict(kept,
                    DOMAIN kept \ {s[i] : i \in 1..excess_count(kept)})
        ELSE kept

\* mutant of get_or_create_conversation: the id sent is not looked up
get_or_create_AlwaysNew(convs, conversation_id, t, new_id) ==
    LET c == cleanup_old_conversations(convs, t)
    IN  [convs |-> [i \in DOMAIN c \cup {new_id} |->
                        IF i = new_id THEN Conversation(new_id, t) ELSE c[i]],
         id |-> new_id]

\* the conversations after the call, and the id of the one returned;
\* new_id is the value of uuid.uuid4()
get_or_create_conversation(convs, conversation_id, t, new_id) ==
    LET c == cleanup_old_conversations(convs, t)
    IN  IF conversation_id # 0 /\ conversation_id \in DOMAIN c
        THEN [convs |-> [c EXCEPT ![conversation_id].updated_at = t],
              id |-> conversation_id]
        ELSE [convs |-> [i \in DOMAIN c \cup {new_id} |->
                            IF i = new_id THEN Conversation(new_id, t) ELSE c[i]],
              id |-> new_id]

\* mutant of add_message_to_conversation: messages.insert(0, message)
add_message_Prepending(convs, id, role, content, citations, t) ==
    [convs EXCEPT ![id].messages = <<Message(role, content, t, citations)>> \o @,
                  ![id].updated_at = t]

\* mutant of add_message_to_conversation: the citations are not stored
add_message_WithoutCitations(convs, id, role, content, citations, t) ==
    [convs EXCEPT ![id].messages = Append(@, Message(role, content, t, None)),
                  ![id].updated_at = t]

add_message_to_conversation(convs, id, role, content, citations, t) ==
    [convs EXCEPT ![id].messages = Append(@, Message(role, content, t, citations)),
                  ![id].updated_at = t]

format_conversation_history(conversation) ==
    LET msgs == conversation.messages
        recent_messages ==
            IF Len(msgs) > MAX_HISTORY
            THEN SubSeq(msgs, Len(msgs) - MAX_HISTORY + 1, Len(msgs))
            ELSE msgs
        formatted ==
            [k \in 1..Len(recent_messages) |->
                (IF recent_messages[k].role = "user"
                 THEN <<"User: ">> ELSE <<"Assistant: ">>)
                \o recent_messages[k].content]
    IN  Join(<<"\n\n">>, formatted)

\* ---- the retrieval-request builder ---------------------------------------
\* os.getenv("LOCATION", "us-central1")
LOCATION == "us-central1"
\* int(os.getenv("SIMILARITY_TOP_K", "5"))
SIMILARITY_TOP_K == 5

datastore_path(project, data_store_id) ==
    <<"projects/", project, "/locations/", LOCATION,
      "/collections/default_collection/dataStores/", data_store_id>>

RagTool(corpus) ==
    [retrieval |-> "vertexRagStore", ragCorpus |-> corpus,
     similarityTopK |-> SIMILARITY_TOP_K]

SearchTool(project, data_store_id) ==
    [retrieval |-> "vertexAiSearch",
     datastore |-> datastore_path(project, data_store_id)]

\* None when the function raises RuntimeError
build_retrieval_tools_json(project, corpus, data_store_id) ==
    IF corpus # "" THEN Some(<<RagTool(corpus)>>)
    ELSE IF data_store_id # "" THEN Some(<<SearchTool(project, data_store_id)>>)
    ELSE None

\* the typed variant's tools_objects
tools_objects(project, corpus, data_store_id) ==
    IF corpus # "" THEN <<RagTool(corpus)>>
    ELSE IF data_store_id # "" THEN <<SearchTool(project, data_store_id)>>
    ELSE <<>>

enhanced_question(conversation, question) ==
    LET conversation_history == format_conversation_history(conversation)
    IN  IF conversation_history # <<>>
        THEN <<"Previous conversation:\n">> \o conversation_history
             \o <<"\n\nCurrent question: ">> \o question
        ELSE question

\* ---- the response extractor ----------------------------------------------
\* A response is [text, candidates]: text is the typed object's convenience
\* property (None when absent), candidates is None when the field is missing
\* and Some(list) otherwise.  A candidate is [parts, grounding_metadata]:
\* parts is a list of optional texts, grounding_metadata is None or
\* Some(list of supports).  A support is [support]: None, or
\* Some([grounding_chunk]): None, or Some([web, file]), each None or Some(uri).

RECURSIVE PartTexts(_)
\* the texts of the parts that carry a str
PartTexts(parts) ==
    IF parts = <<>> THEN <<>>
    ELSE (IF Head(parts) # None THEN <<Head(parts)[1]>> ELSE <<>>)
         \o PartTexts(Tail(parts))

RECURSIVE CandidateTexts(_)
CandidateTexts(cands) ==
    IF cands = <<>> THEN <<>>
    ELSE PartTexts(Head(cands).parts) \o CandidateTexts(Tail(cands))

\* the uri of one grounding support, None when it has none
SupportUri(s) ==
    IF s.support = None THEN None
    ELSE LET chunk == s.support[1].grounding_chunk
         IN  IF chunk = None THEN None
             ELSE IF chunk[1].web # None THEN chunk[1].web
             ELSE chunk[1].file

RECURSIVE CollectUris(_)
\* the loop over the supports: citations.append(uri) for every uri found
CollectUris(supports) ==
    IF supports = <<>> THEN <<>>
    ELSE SupportUri(Head(supports)) \o CollectUris(Tail(supports))

extract_text_from_response(response) ==
    IF response.text # None /\ Strip(response.text[1]) # <<>>
    THEN Strip(response.text[1])
    ELSE IF response.candidates = None \/ response.candidates[1] = <<>>
    THEN <<>>
    ELSE Strip(Join(<<"\n">>, CandidateTexts(response.candidates[1])))

extract_citations_from_response(response) ==
    IF response.candidates = None \/ response.candidates[1] = <<>>
    THEN <<>>
    ELSE LET gm == response.candidates[1][1].grounding_metadata
         IN  IF gm = None THEN <<>> ELSE CollectUris(gm[1])

\* the raw-HTTPS variant reads the parsed JSON itself
rest_answer(response) ==
    LET cands == IF response.candidates = None THEN <<>>
                 ELSE response.candidates[1]
    IN  Strip(Join(<<"\n">>, CandidateTexts(cands)))

\* None when response.get("candidates", [{}])[0] raises IndexError
rest_citations(response) ==
    IF response.candidates = None THEN Some(<<>>)
    ELSE IF response.candidates[1] = <<>> THEN None
    ELSE LET gm == response.candidates[1][1].grounding_metadata
         IN  IF gm = None THEN Some(<<>>) ELSE Some(CollectUris(gm[1]))

\* ---- inputs --------------------------------------------------------------
Chunk(web, file) ==
    [support |-> Some([grounding_chunk |-> Some([web |-> web, file |-> file])])]

Candidate(parts, gm) == [parts |-> parts, grounding_metadata |-> gm]

\* the shapes of a remote response the model draws from
Responses ==
    { \* no candidates field at all
      [text |-> None, candidates |-> None],
      \* a candidates list that is present and empty
      [text |-> None, candidates |-> Some(<<>>)],
      \* an answer without grounding metadata
      [text |-> None,
       candidates |-> Some(<<Candidate(<<Some(<<"a">>)>>, None)>>)],
      \* two supports carrying the same web uri
      [text |-> None,
       candidates |-> Some(<<Candidate(<<Some(<<"a">>)>>,
            Some(<<Chunk(Some("u1"), None), Chunk(Some("u1"), None)>>))>>)],
      \* a convenience text, a part without text, a support without a chunk,
      \* a file path, a web uri that wins over a file path, a repeated uri
      [text |-> Some(<<" ", "b">>),
       candidates |-> Some(<<Candidate(<<None, Some(<<"a", "\n">>)>>,
            Some(<<Chunk(Some("u1"), Some("f1")),
                   [support |-> None],
                   [support |-> Some([grounding_chunk |-> None])],
                   Chunk(None, Some("f1")),
                   Chunk(None, None),
                   Chunk(Some("u1"), None)>>))>>)] }

\* what the remote call does: raises (exception or timeout), answers with a
\* non-success HTTP status, or answers with a response
Upstreams ==
    {[kind |-> "raise"], [kind |-> "status"]}
    \cup {[kind |-> "ok", response |-> r] : r \in Responses}

\* a request that is answered before the remote call meets no upstream
NoUpstream == [kind |-> "none"]

\* data.get("question"): missing, empty, blank, or text with or without padding
Questions ==
    {None, Some(<<>>), Some(<<" ">>), Some(<<" ", "q", "\n">>)}

\* ids a client can send: none (0), or one handed out earlier, which is
\* unknown to the store once its conversation is removed
ClientIds == 0..(nextId - 1)

\* ---- the handlers --------------------------------------------------------
NoReply ==
    [status |-> 0, error |-> FALSE, conversation_id |-> 0, answer |-> None,
     citations |-> None, messages |-> None, sent |-> None]

Error(status, sent) == [NoReply EXCEPT !.status = status, !.error = TRUE, !.sent = sent]

Answer(answer, citations, id, sent) ==
    [NoReply EXCEPT !.status = 200, !.answer = Some(answer),
                    !.citations = Some(citations), !.conversation_id = id,
                    !.sent = sent]

Request(text, tools) == [text |-> text, tools |-> tools, temperature |-> "0.2"]

\* mutant of ask_typed: a failed call takes the user message back
ask_typed_RollsBack(c1, id, text, upstream, t) ==
    LET sent == Some(Request(text,
                    tools_objects(PROJECT_ID, RAG_CORPUS, DATA_STORE_ID)))
    IN  IF upstream.kind # "ok"
        THEN [convs |-> [c1 EXCEPT ![id].messages = SubSeq(@, 1, Len(@) - 1)],
              reply |-> Error(500, sent)]
        ELSE LET answer == extract_text_from_response(upstream.response)
                 citations == extract_citations_from_response(upstream.response)
             IN  [convs |-> add_message_to_conversation(c1, id, "assistant",
                                answer, Some(citations), t),
                  reply |-> Answer(answer, citations, id, sent)]

\* the typed-client branch of ask, from the remote call on: c1 is the store
\* with the user message appended to conversation id, text the prompt
ask_typed(c1, id, text, upstream, t) ==
    LET sent == Some(Request(text,
                    tools_objects(PROJECT_ID, RAG_CORPUS, DATA_STORE_ID)))
    IN  IF upstream.kind # "ok"
        THEN [convs |-> c1, reply |-> Error(500, sent)]
        ELSE LET answer == extract_text_from_response(upstream.response)
                 citations == extract_citations_from_response(upstream.response)
             IN  [convs |-> add_message_to_conversation(c1, id, "assistant",
                                answer, Some(citations), t),
                  reply |-> Answer(answer, citations, id, sent)]

\* mutant of ask_rest: http_resp.ok is not looked at, and the body of the
\* failed call (no candidates in it) is read as a response
ask_rest_StatusIgnored(c1, id, text, upstream, t) ==
    LET tools_json == build_retrieval_tools_json(PROJECT_ID, RAG_CORPUS,
                                                  DATA_STORE_ID)
    IN  IF tools_json = None
        THEN [convs |-> c1, reply |-> Error(500, None)]
        ELSE
        LET sent == Some(Request(text, tools_json[1]))
            response == IF upstream.kind = "status"
                        THEN [text |-> None, candidates |-> None]
                        ELSE upstream.response
        IN  IF upstream.kind = "raise"
            THEN [convs |-> c1, reply |-> Error(500, sent)]
            ELSE IF rest_citations(response) = None
            THEN [convs |-> c1, reply |-> Error(500, sent)]
            ELSE LET answer == rest_answer(response)
                     citations == rest_citations(response)[1]
                 IN  [convs |-> add_message_to_conversation(c1, id, "assistant",
                                    answer, Some(citations), t),
                      reply |-> Answer(answer, citations, id, sent)]

\* the raw-HTTPS branch of ask, from build_retrieval_tools_json on
ask_rest(c1, id, text, upstream, t) ==
    LET tools_json == build_retrieval_tools_json(PROJECT_ID, RAG_CORPUS,
                                                  DATA_STORE_ID)
    IN  IF tools_json = None
        THEN [convs |-> c1, reply |-> Error(500, None)]
        ELSE
        LET sent == Some(Request(text, tools_json[1]))
        IN  IF upstream.kind = "raise"
            THEN [convs |-> c1, reply |-> Error(500, sent)]
            ELSE IF upstream.kind = "status"
            THEN [convs |-> c1, reply |-> Error(502, sent)]
            ELSE IF rest_citations(upstream.response) = None
            THEN [convs |-> c1, reply |-> Error(500, sent)]
            ELSE LET answer == rest_answer(upstream.response)
                     citations == rest_citations(upstream.response)[1]
                 IN  [convs |-> add_message_to_conversation(c1, id, "assistant",
                                    answer, Some(citations), t),
                      reply |-> Answer(answer, citations, id, sent)]

\* POST /api/ask: the store it leaves and the reply.  t is the clock when the
\* request arrives, d the time the remote call takes, new_id the uuid4 value.
ask(convs, question_in, conversation_id, upstream, t, d, new_id) ==
    LET question == Strip(IF question_in = None THEN <<>> ELSE question_in[1])
    IN
    IF question = <<>> THEN [convs |-> convs, reply |-> Error(400, None)]
    ELSE IF PROJECT_ID = "" THEN [convs |-> convs, reply |-> Error(500, None)]
    ELSE
    LET g == get_or_create_conversation(convs, conversation_id, t, new_id)
        c1 == add_message_to_conversation(g.convs, g.id, "user", question, None, t)
        text == enhanced_question(c1[g.id], question)
    IN  IF HAVE_TOOL_CLASSES
        THEN ask_typed(c1, g.id, text, upstream, t + d)
        ELSE ask_rest(c1, g.id, text, upstream, t + d)

\* mutant of get_conversation: the conversation is handed over and dropped
get_conversation_Consuming(convs, conversation_id) ==
    IF conversation_id \notin DOMAIN convs
    THEN [convs |-> convs, reply |-> Error(404, None)]
    ELSE [convs |-> Restrict(convs, DOMAIN convs \ {conversation_id}),
          reply |-> [NoReply EXCEPT !.status = 200,
                        !.conversation_id = convs[conversation_id].id,
                        !.messages = Some(convs[conversation_id].messages)]]

\* GET /api/conversation/<conversation_id>
get_conversation(convs, conversation_id) ==
    IF conversation_id \notin DOMAIN convs
    THEN [convs |-> convs, reply |-> Error(404, None)]
    ELSE [convs |-> convs,
          reply |-> [NoReply EXCEPT !.status = 200,
                        !.conversation_id = convs[conversation_id].id,
                        !.messages = Some(convs[conversation_id].messages)]]

\* mutant of delete_conversation: success is answered, nothing is deleted
delete_conversation_Kept(convs, conversation_id) ==
    IF conversation_id \in DOMAIN convs
    THEN [convs |-> convs, reply |-> [NoReply EXCEPT !.status = 200]]
    ELSE [convs |-> convs, reply |-> Error(404, None)]

\* DELETE /api/conversation/<conversation_id>
delete_conversation(convs, conversation_id) ==
    IF conversation_id \in DOMAIN convs
    THEN [convs |-> Restrict(convs, DOMAIN convs \ {conversation_id}),
          reply |-> [NoReply EXCEPT !.status = 200]]
    ELSE [convs |-> convs, reply |-> Error(404, None)]

\* POST /api/conversation/new
new_conversation(convs, t, new_id) ==
    LET g == get_or_create_conversation(convs, 0, t, new_id)
    IN  [convs |-> g.convs,
         reply |-> [NoReply EXCEPT !.status = 200, !.conversation_id = g.id]]

\* ---- the state machine ---------------------------------------------------
\* the ids the cleanup pass of a handler takes out of the store
Cleaned(convs, t) == DOMAIN convs \ DOMAIN cleanup_old_conversations(convs, t)

\* one handled request: the handler, the id and question sent with it, what
\* the remote call did, what its cleanup pass removed, and the reply
Handled(op, id, question, upstream, cleaned, reply) ==
    [op |-> op, id |-> id, question |-> question, upstream |-> upstream,
     cleaned |-> cleaned, reply |-> reply]

\* whether ask gets as far as get_or_create_conversation
PassesValidation(question_in) ==
    /\ question_in # None
    /\ Strip(question_in[1]) # <<>>
    /\ PROJECT_ID # ""

\* the request threads of app.run's server
Threads == {1, 2}

\* a thread that is handling nothing
IdleThread ==
    [pc |-> "idle", question |-> None, conversation_id |-> 0,
     conversation |-> 0, enhanced_question |-> <<>>, upstream |-> NoUpstream]

Init ==
    /\ running = [th \in Threads |-> IdleThread]
    /\ conversations = <<>>
    /\ now = 0
    /\ nextId = 1
    /\ PROJECT_ID \in {"", "proj"}
    /\ RAG_CORPUS \in {"", "corpus"}
    /\ DATA_STORE_ID \in {"", "store"}
    /\ HAVE_TOOL_CLASSES \in BOOLEAN
    /\ last = Handled("none", 0, None, NoUpstream, {}, NoReply)

\* a handler that drew new_id from uuid4 has used it up
Drawn(convs) == IF nextId \in DOMAIN convs THEN nextId + 1 ELSE nextId

\* whether ask gets as far as the remote call
ReachesCall(question_in) ==
    /\ PassesValidation(question_in)
    /\ HAVE_TOOL_CLASSES
          \/ build_retrieval_tools_json(PROJECT_ID, RAG_CORPUS, DATA_STORE_ID) # None

Ask ==
    \E q \in Questions, id \in ClientIds :
    \E up \in IF ReachesCall(q) THEN Upstreams ELSE {NoUpstream} :
    \E d \in IF ReachesCall(q) THEN 0..MaxCallTime ELSE {0} :
        /\ id \in DOMAIN conversations
              => Len(conversations[id].messages) < MaxMessages
        /\ now + d <= MaxTime
        /\ \E r \in {ask(conversations, q, id, up, now, d, nextId)} :
            /\ nextId \in DOMAIN r.convs => nextId <= MaxIds
            /\ conversations' = r.convs
            /\ nextId' = Drawn(r.convs)
            /\ now' = now + d
            /\ last' = Handled("ask", id, q, up,
                        IF PassesValidation(q)
                        THEN Cleaned(conversations, now) ELSE {},
                        r.reply)
            /\ UNCHANGED <<config, running>>

NewConversation ==
    LET r == new_conversation(conversations, now, nextId)
    IN  /\ nextId <= MaxIds
        /\ conversations' = r.convs
        /\ nextId' = nextId + 1
        /\ last' = Handled("new", 0, None, NoUpstream,
                        Cleaned(conversations, now), r.reply)
        /\ UNCHANGED <<now, config, running>>

GetConversation ==
    \E id \in ClientIds \ {0} :
        LET r == get_conversation(conversations, id)
        IN  /\ conversations' = r.convs
            /\ last' = Handled("get", id, None, NoUpstream, {}, r.reply)
            /\ UNCHANGED <<now, nextId, config, running>>

DeleteConversation ==
    \E id \in ClientIds \ {0} :
        LET r == delete_conversation(conversations, id)
        IN  /\ conversations' = r.convs
            /\ last' = Handled("delete", id, None, NoUpstream, {}, r.reply)
            /\ UNCHANGED <<now, nextId, config, running>>

\* time passes between requests
Tick ==
    /\ now < MaxTime
    /\ now' = now + 1
    /\ UNCHANGED <<conversations, nextId, config, last, running>>

Next == Ask \/ NewConversation \/ GetConversation \/ DeleteConversation \/ Tick

Spec == Init /\ [][Next]_vars

\* ---- two asks handled at the same time -----------------------------------
\* app.run serves each request on a thread of its own and the handlers take
\* no lock: a thread can be switched out between any two statements of ask.
\* Each thread handles one ask, the statements of ask in the groups below.
\* The asks arrive when one conversation has been created and its id is the
\* only one a client knows; the clock stands still.

\* the store after one POST /api/conversation/new
ConcStore == new_conversation(<<>>, 0, 1)

InitConc ==
    /\ running = [th \in Threads |-> IdleThread]
    /\ conversations = ConcStore.convs
    /\ now = 0
    /\ nextId = 2
    /\ PROJECT_ID \in {"", "proj"}
    /\ RAG_CORPUS \in {"", "corpus"}
    /\ DATA_STORE_ID \in {"", "store"}
    /\ HAVE_TOOL_CLASSES \in BOOLEAN
    /\ last = Handled("new", 0, None, NoUpstream, {}, ConcStore.reply)

\* what the two clients can send as conversation_id: nothing, or the id of
\* the conversation created
ConcIds == {0} \cup DOMAIN ConcStore.convs

\* lines 272-281: the request arrives and is validated
ConcValidate(th) ==
    /\ running[th].pc = "idle"
    /\ \E q \in Questions, id \in ConcIds :
        running' = [running EXCEPT ![th] =
            [@ EXCEPT !.pc = IF PassesValidation(q) THEN "validated" ELSE "done",
                      !.question = q, !.conversation_id = id]]
    /\ UNCHANGED <<conversations, now, nextId, config, last>>

\* line 284: conversation = get_or_create_conversation(conversation_id)
ConcGetOrCreate(th) ==
    /\ running[th].pc = "validated"
    /\ LET g == get_or_create_conversation(conversations,
                    running[th].conversation_id, now, nextId)
       IN  /\ conversations' = g.convs
           /\ nextId' = Drawn(g.convs)
           /\ running' = [running EXCEPT ![th] =
                    [@ EXCEPT !.pc = "obtained", !.conversation = g.id]]
    /\ UNCHANGED <<now, config, last>>

\* line 287: add_message_to_conversation(conversation, "user", question)
ConcAppendUser(th) ==
    /\ running[th].pc = "obtained"
    /\ conversations' = add_message_to_conversation(conversations,
            running[th].conversation, "user", Strip(running[th].question[1]),
            None, now)
    /\ running' = [running EXCEPT ![th].pc = "appended"]
    /\ UNCHANGED <<now, nextId, config, last>>

\* lines 290-294: the prompt, from the log as it is now
ConcFormat(th) ==
    /\ running[th].pc = "appended"
    /\ running' = [running EXCEPT ![th] =
            [@ EXCEPT !.pc = "formatted",
                      !.enhanced_question =
                        enhanced_question(conversations[running[th].conversation],
                                          Strip(running[th].question[1]))]]
    /\ UNCHANGED <<conversations, now, nextId, config, last>>

\* lines 296-389: the remote call, the extraction, the assistant message
ConcCall(th) ==
    /\ running[th].pc = "formatted"
    /\ \E up \in IF ReachesCall(running[th].question)
                  THEN Upstreams ELSE {NoUpstream} :
        LET r == IF HAVE_TOOL_CLASSES
                 THEN ask_typed(conversations, running[th].conversation,
                                running[th].enhanced_question, up, now)
                 ELSE ask_rest(conversations, running[th].conversation,
                               running[th].enhanced_question, up, now)
        IN  /\ conversations' = r.convs
            /\ running' = [running EXCEPT ![th] =
                    [@ EXCEPT !.pc = "done", !.upstream = up]]
    /\ UNCHANGED <<now, nextId, config, last>>

NextConc ==
    \E th \in Threads :
        \/ ConcValidate(th)
        \/ ConcGetOrCreate(th)
        \/ ConcAppendUser(th)
        \/ ConcFormat(th)
        \/ ConcCall(th)

SpecConc == InitConc /\ [][NextConc]_vars

\* ---- steps, as the properties below see them -----------------------------
\* a step of Next other than Tick leaves its handler in last; a request that
\* changes neither the store nor last is a stuttering step
AskStep == last'.op = "ask" /\ <<conversations, last>>' # <<conversations, last>>

NewStep == last'.op = "new" /\ <<conversations, last>>' # <<conversations, last>>

DeleteStep ==
    last'.op = "delete" /\ <<conversations, last>>' # <<conversations, last>>

\* a step that runs get_or_create_conversation, hence a cleanup pass
GetOrCreateStep == NewStep \/ (AskStep /\ PassesValidation(last'.question))

\* a question that is missing, empty or made of whitespace only
Blank(question_in) ==
    \/ question_in = None
    \/ \A k \in 1..Len(question_in[1]) : IsSpace(question_in[1][k])

IsPrefix(s, t) == Len(s) <= Len(t) /\ SubSeq(t, 1, Len(s)) = s

\* ---- C1 ------------------------------------------------------------------
\* C1: in every reachable state the store holds at most MAX_CONVERSATIONS
\* conversations.
C1_AtMostMaxConversations ==
    Cardinality(DOMAIN conversations) <= MAX_CONVERSATIONS

\* ---- C2 ------------------------------------------------------------------
\* C2: from an empty store and with nothing expiring, the creation that
\* follows MAX_CONVERSATIONS creations (all of them still stored) leaves
\* exactly MAX_CONVERSATIONS conversations, and the one with the smallest
\* updated_at is the one that is gone.
C2_OverflowEvictsOldest ==
    [][(/\ nextId' = nextId + 1
        /\ nextId = MAX_CONVERSATIONS + 1
        /\ Cardinality(DOMAIN conversations) = MAX_CONVERSATIONS
        /\ to_remove(conversations, now) = {})
       => /\ Cardinality(DOMAIN conversations') = MAX_CONVERSATIONS
          /\ sorted_convs(conversations)[1] \notin DOMAIN conversations']_vars

\* ---- C3 ------------------------------------------------------------------
\* what GET /api/conversation/{id} shows after an ask that answered `reply`
\* to `question_in`: exactly the user message and the assistant message
ShowsRoundTrip(convs, id, question_in, reply) ==
    LET shown == get_conversation(convs, id).reply
    IN  /\ shown.status = 200
        /\ shown.messages # None
        /\ LET m == shown.messages[1]
           IN  /\ Len(m) = 2
               /\ m[1].role = "user"
               /\ m[1].content = Strip(question_in[1])
               /\ m[2].role = "assistant"
               /\ m[2].citations = reply.citations

\* a successful ask on a stored conversation whose log is empty: only
\* POST /api/conversation/new leaves such a conversation
FirstAskOnNew ==
    /\ AskStep
    /\ last'.reply.status = 200
    /\ last'.id \in DOMAIN conversations
    /\ conversations[last'.id].messages = <<>>

\* C3 as stated: after new, one successful ask with that id, the read of
\* that id shows exactly the user message and the assistant message, whose
\* citations are those the ask returned.
C3_RoundTripAsStated ==
    [][FirstAskOnNew
       => ShowsRoundTrip(conversations', last'.id, last'.question, last'.reply)]_vars

\* C3 (amended): the same, for an ask whose reply carries the id it was sent,
\* that is, whose cleanup pass left the conversation in the store.
C3_RoundTrip ==
    [][(FirstAskOnNew /\ last'.reply.conversation_id = last'.id)
       => ShowsRoundTrip(conversations', last'.id, last'.question, last'.reply)]_vars

C3_Witness ==
    /\ last.op = "ask"
    /\ last.reply.status = 200
    /\ last.id # 0
    /\ last.reply.conversation_id = last.id
    /\ last.id \in DOMAIN conversations
    /\ Len(conversations[last.id].messages) = 2
    /\ conversations[last.id].messages[2].citations = Some(<<"u1", "f1", "u1">>)

\* ---- C4 ------------------------------------------------------------------
\* an ask that got as far as get_or_create_conversation used the conversation
\* `id` it was sent: no uuid was drawn, the log it had is kept and extended,
\* and a successful reply carries that id
UsedExisting(id) ==
    /\ nextId' = nextId
    /\ id \in DOMAIN conversations'
    /\ IsPrefix(conversations[id].messages, conversations'[id].messages)
    /\ conversations'[id].created_at = conversations[id].created_at
    /\ last'.reply.status = 200 => last'.reply.conversation_id = id

\* C4 as stated: an id that is in the store when the request arrives is the
\* conversation used, and a fresh one is allocated only for no id or an id
\* that is not in the store.
C4_GetOrCreateAsStated ==
    [][(AskStep /\ PassesValidation(last'.question))
       => /\ last'.id \in DOMAIN conversations => UsedExisting(last'.id)
          /\ nextId' # nextId
                => last'.id = 0 \/ last'.id \notin DOMAIN conversations]_vars

\* C4 (amended): an id that is in the store after the cleanup pass that
\* get_or_create_conversation runs first is the conversation used, and a
\* fresh one is allocated only for no id or an id that is not in the store
\* after that cleanup pass.
C4_GetOrCreate ==
    [][(AskStep /\ PassesValidation(last'.question))
       => LET kept == DOMAIN cleanup_old_conversations(conversations, now)
          IN  /\ last'.id \in kept => UsedExisting(last'.id)
              /\ nextId' # nextId => last'.id = 0 \/ last'.id \notin kept
              /\ nextId' # nextId
                    => /\ nextId \in DOMAIN conversations'
                       /\ Len(conversations'[nextId].messages) <= 2
                       /\ conversations'[nextId].messages[1].role = "user"]_vars

C4_Witness ==
    /\ last.op = "ask"
    /\ last.reply.status = 200
    /\ last.id # 0
    /\ last.reply.conversation_id = last.id
    /\ last.id \in DOMAIN conversations
    /\ Len(conversations[last.id].messages) = 3

\* ---- C5 ------------------------------------------------------------------
\* C5: an ask whose question is missing, empty or whitespace-only is answered
\* 400 with an error body and leaves the store as it was.
C5_BlankQuestionRejected ==
    [][(AskStep /\ Blank(last'.question))
       => /\ last'.reply.status = 400
          /\ last'.reply.error
          /\ last'.reply.sent = None
          /\ conversations' = conversations
          /\ nextId' = nextId]_vars

C5_Witness ==
    /\ last.op = "ask"
    /\ last.question = Some(<<" ">>)
    /\ last.reply.status = 400
    /\ PROJECT_ID # ""
    /\ conversations # <<>>

\* ---- C6 ------------------------------------------------------------------
UpstreamFailed == last.op = "ask" /\ last.upstream.kind \in {"raise", "status"}

\* C6 as stated: whenever the upstream call fails, by status or by a call
\* failure, on either variant, the reply is 502 with an error body.
C6_UpstreamFailureIs502 ==
    UpstreamFailed => last.reply.status = 502 /\ last.reply.error

\* C6 (amended): a failed upstream call is answered with an error body; the
\* status is 502 when the raw-HTTPS call returns a non-success HTTP status,
\* and 500 when the call raises (exception or timeout) and for every failure
\* of the typed client.
C6_UpstreamFailure ==
    UpstreamFailed
    => /\ last.reply.error
       /\ last.reply.status =
            IF last.upstream.kind = "status" /\ ~HAVE_TOOL_CLASSES
            THEN 502 ELSE 500

C6_Witness ==
    /\ UpstreamFailed
    /\ last.upstream.kind = "status"
    /\ ~HAVE_TOOL_CLASSES
    /\ last.reply.status = 502

\* ---- C7 ------------------------------------------------------------------
\* C7: an ask with a valid question is answered 500 with an error body, and
\* nothing is sent to the remote service, whenever the project id or both
\* retrieval sources are not configured, on either variant.
C7_UnconfiguredIs500 ==
    (/\ last.op = "ask"
     /\ ~Blank(last.question)
     /\ PROJECT_ID = "" \/ (RAG_CORPUS = "" /\ DATA_STORE_ID = ""))
    => /\ last.reply.status = 500
       /\ last.reply.error
       /\ last.reply.sent = None

\* ---- C8 ------------------------------------------------------------------
RECURSIVE Dedup(_)
\* each element once, at the place of its first occurrence
Dedup(s) ==
    IF s = <<>> THEN <<>>
    ELSE LET init == Dedup(SubSeq(s, 1, Len(s) - 1))
             x == s[Len(s)]
         IN  IF \E k \in 1..Len(init) : init[k] = x THEN init ELSE Append(init, x)

\* the uris of the grounding supports of the first candidate, in order
SupportUris(response) ==
    IF response.candidates = None \/ response.candidates[1] = <<>> THEN <<>>
    ELSE LET gm == response.candidates[1][1].grounding_metadata
         IN  IF gm = None THEN <<>> ELSE CollectUris(gm[1])

\* C8: the citations of a response are its distinct uris, each once, in the
\* order of first occurrence among the grounding supports.
C8_CitationsDeduplicated ==
    (last.op = "ask" /\ last.reply.status = 200)
    => last.reply.citations = Some(Dedup(SupportUris(last.upstream.response)))

\* ---- C9 ------------------------------------------------------------------
\* C9: a conversation whose updated_at is more than CONVERSATION_TIMEOUT
\* before the time of a get-or-create (an ask that passes validation, or a
\* new-conversation request) is not in the store when that request is done.
C9_ExpiredRemoved ==
    [][GetOrCreateStep
       => \A i \in DOMAIN conversations :
            now - conversations[i].updated_at > CONVERSATION_TIMEOUT
                => i \notin DOMAIN conversations']_vars

\* a request whose cleanup pass removed a conversation and left fewer than
\* MAX_CONVERSATIONS behind: the removal was for age, not for capacity
C9_Witness ==
    /\ last.op \in {"ask", "new"}
    /\ last.cleaned # {}
    /\ Cardinality(DOMAIN conversations) <= MAX_CONVERSATIONS
    /\ last.reply.conversation_id \notin last.cleaned

\* ---- C10 -----------------------------------------------------------------
\* C10: a delete of an id that is not stored is answered 404 and leaves the
\* store as it was; a delete of a stored id removes that conversation and no
\* other and is answered with success, and a second delete of it is a 404.
C10_Delete ==
    [][DeleteStep
       => IF last'.id \in DOMAIN conversations
          THEN /\ last'.reply.status = 200
               /\ ~last'.reply.error
               /\ conversations' =
                    Restrict(conversations, DOMAIN conversations \ {last'.id})
               /\ delete_conversation(conversations', last'.id).reply.status = 404
          ELSE /\ last'.reply.status = 404
               /\ last'.reply.error
               /\ conversations' = conversations]_vars

C10_Witness ==
    /\ last.op = "delete"
    /\ last.reply.status = 200
    /\ last.id \notin DOMAIN conversations
    /\ conversations # <<>>

\* ---- C11 -----------------------------------------------------------------
GetStep == last'.op = "get" /\ <<conversations, last>>' # <<conversations, last>>

\* C11: a read leaves the set of stored conversations and every message log
\* as they were, shows the stored log, and a read repeated right after it
\* is answered the same.
C11_ReadIsIdempotent ==
    [][GetStep
       => /\ DOMAIN conversations' = DOMAIN conversations
          /\ \A i \in DOMAIN conversations :
                conversations'[i].messages = conversations[i].messages
          /\ last'.id \in DOMAIN conversations
                => /\ last'.reply.status = 200
                   /\ last'.reply.messages = Some(conversations[last'.id].messages)
          /\ get_conversation(conversations', last'.id).reply = last'.reply]_vars

C11_Witness ==
    /\ last.op = "get"
    /\ last.reply.status = 200
    /\ last.reply.messages # None
    /\ Len(last.reply.messages[1]) >= 2
    /\ Cardinality(DOMAIN conversations) > 1

\* ---- C12 -----------------------------------------------------------------
\* the store after the asks of threads a and b, handled one at a time in
\* that order from the store the two asks found
OneAtATime(a, b) ==
    LET first == ask(ConcStore.convs, running[a].question,
                     running[a].conversation_id, running[a].upstream, now, 0, 2)
    IN  ask(first.convs, running[b].question, running[b].conversation_id,
            running[b].upstream, now, 0,
            IF 2 \in DOMAIN first.convs THEN 3 ELSE 2).convs

\* C12: when two asks are handled concurrently, their steps on the store do
\* not interleave: once both are done, the store is one that handling the
\* two asks one at a time, in one order or the other, leaves.
C12_Serializable ==
    (\A th \in Threads : running[th].pc = "done")
    => conversations \in {OneAtATime(1, 2), OneAtATime(2, 1)}

\* ---- C13 -----------------------------------------------------------------
\* the log that the conversation an ask works on has when the ask arrives
PriorMessages(convs, id, t) ==
    LET kept == cleanup_old_conversations(convs, t)
    IN  IF id # 0 /\ id \in DOMAIN kept THEN kept[id].messages ELSE <<>>

\* C13: when the conversation has no prior messages, the prompt sent to the
\* remote service is exactly the question; the "Previous conversation:"
\* template is used only when prior messages exist.
C13_NoHistoryNoTemplate ==
    [][(/\ AskStep
        /\ last'.reply.sent # None
        /\ PriorMessages(conversations, last'.id, now) = <<>>)
       => last'.reply.sent[1].text = Strip(last'.question[1])]_vars

\* ---- C14 -----------------------------------------------------------------
\* a response without candidates, or whose first candidate has no metadata
NothingToCite(response) ==
    \/ response.candidates = None
    \/ response.candidates[1] = <<>>
    \/ response.candidates[1][1].grounding_metadata = None

\* C14: whatever the shape of the remote response, on either variant, the
\* ask is answered 200; a response without candidates or grounding metadata
\* gives an empty citation list.
C14_ExtractionNeverRaises ==
    (last.op = "ask" /\ last.upstream.kind = "ok")
    => /\ last.reply.status = 200
       /\ NothingToCite(last.upstream.response)
            => last.reply.citations = Some(<<>>)

\* ---- C15 -----------------------------------------------------------------
\* C15: every request sent to the remote service carries exactly one
\* retrieval tool: the corpus one when a corpus is configured, otherwise the
\* data-store one.
C15_ExactlyOneTool ==
    (last.op = "ask" /\ last.reply.sent # None)
    => /\ Len(last.reply.sent[1].tools) = 1
       /\ last.reply.sent[1].tools[1].retrieval =
            IF RAG_CORPUS # "" THEN "vertexRagStore" ELSE "vertexAiSearch"

\* ---- C16 -----------------------------------------------------------------
\* C16: in every state and for every valid ask, the typed-client branch and
\* the raw-HTTPS branch either both send a request or both fail before the
\* call, and what they send (prompt, tools, temperature) is the same.
C16_VariantsEquivalent ==
    PROJECT_ID # "" =>
    \A q \in {x \in Questions : PassesValidation(x)}, id \in ClientIds,
       up \in Upstreams :
        LET question == Strip(q[1])
            g == get_or_create_conversation(conversations, id, now, nextId)
            c1 == add_message_to_conversation(g.convs, g.id, "user", question,
                                              None, now)
            text == enhanced_question(c1[g.id], question)
        IN  ask_typed(c1, g.id, text, up, now).reply.sent
            = ask_rest(c1, g.id, text, up, now).reply.sent

\* ---- C17 -----------------------------------------------------------------
\* C17: updated_at becomes the current time on every read of a conversation
\* and on every append to it: by GET /api/conversation/{id}, by get-or-create
\* of a stored id, and by each message append (an append during an ask that
\* began at time now happens between now and the end of the ask).
C17_TouchedOnReadAndAppend ==
    [][/\ (GetStep /\ last'.reply.status = 200)
            => conversations'[last'.id].updated_at = now
       /\ (AskStep /\ PassesValidation(last'.question))
            => \E i \in DOMAIN conversations' :
                /\ conversations'[i].updated_at \in now..now'
                /\ conversations'[i].messages # <<>>
                /\ conversations'[i].messages[Len(conversations'[i].messages)].timestamp
                     = conversations'[i].updated_at]_vars

\* ---- C18 -----------------------------------------------------------------
\* C18: a cleanup pass removes no unexpired conversation while the store
\* holds at most MAX_CONVERSATIONS; over capacity it removes, of the unexpired
\* ones, only as many as exceed MAX_CONVERSATIONS and none that is younger
\* than one it keeps.
C18_EvictionIsMinimal ==
    [][GetOrCreateStep
       => LET expired == to_remove(conversations, now)
              unexpired == DOMAIN conversations \ expired
              removed == unexpired \ DOMAIN conversations'
              excess == Cardinality(unexpired) - MAX_CONVERSATIONS
          IN  /\ Cardinality(DOMAIN conversations) <= MAX_CONVERSATIONS
                    => removed = {}
              /\ Cardinality(removed) = IF excess > 0 THEN excess ELSE 0
              /\ \A i \in removed, j \in unexpired \ removed :
                    conversations[i].updated_at <= conversations[j].updated_at]_vars

\* nothing has expired by time CONVERSATION_TIMEOUT: what a cleanup pass
\* removed until then it removed for capacity
C18_Witness ==
    /\ last.op \in {"ask", "new"}
    /\ last.cleaned # {}
    /\ now <= CONVERSATION_TIMEOUT
    /\ conversations # <<>>

\* ---- C19 -----------------------------------------------------------------
\* C19: the log of a conversation that stays in the store across a step is
\* a prefix of its log after the step.
C19_AppendOnly ==
    [][\A i \in DOMAIN conversations \cap DOMAIN conversations' :
            IsPrefix(conversations[i].messages, conversations'[i].messages)]_vars

C19_Witness ==
    \E i \in DOMAIN conversations :
        /\ Len(conversations[i].messages) = 3
        /\ conversations[i].messages[1].role = "user"
        /\ conversations[i].messages[2].role = "user"
        /\ conversations[i].messages[3].role = "assistant"

\* ---- C20 -----------------------------------------------------------------
\* the conversation an ask works on: the one sent if the cleanup pass keeps
\* it, a new one otherwise
Target(convs, id, t, new_id) ==
    IF id # 0 /\ id \in DOMAIN cleanup_old_conversations(convs, t)
    THEN id ELSE new_id

\* C20: an ask that passes validation and then fails leaves its conversation
\* in the store with the question appended as the last message and no
\* assistant message after it; a read of the conversation shows that.
C20_FailedAskKeepsQuestion ==
    [][(AskStep /\ PassesValidation(last'.question) /\ last'.reply.error)
       => LET i == Target(conversations, last'.id, now, nextId)
              shown == get_conversation(conversations', i).reply
          IN  /\ shown.status = 200
              /\ shown.messages # None
              /\ LET m == shown.messages[1]
                 IN  /\ Len(m) = Len(PriorMessages(conversations, last'.id, now)) + 1
                     /\ IsPrefix(PriorMessages(conversations, last'.id, now), m)
                     /\ m[Len(m)].role = "user"
                     /\ m[Len(m)].content = Strip(last'.question[1])]_vars

C20_Witness ==
    /\ last.op = "ask"
    /\ last.reply.status = 502
    /\ last.id # 0
    /\ last.id \in DOMAIN conversations
    /\ Len(conversations[last.id].messages) = 2
    /\ conversations[last.id].messages[2].role = "user"

====
